---- MODULE Spec2Model ----
(***************************************************************************)
(* Model of the get_api_data management command                            *)
(* (src/cfc_app/management/commands/get_api_data.py): the DatasetList      *)
(* cache resolver (recent_enough), the per-state dataset fetch             *)
(* (fetch_dataset), the report / Hash ledger (datasets_found) and the      *)
(* driver (handle), run repeatedly against a persistent File/Object store  *)
(* and a persistent Hash table.                                            *)
(*                                                                         *)
(* FOB_Storage, LegiscanAPI, Location and Hash are collaborators whose     *)
(* code is not part of the modelled sources; they are modelled from their  *)
(* documented contracts.  Stored and remote DatasetList texts are assumed  *)
(* to be JSON objects (json.loads does not fail).                          *)
(***************************************************************************)
EXTENDS Integers, Sequences, FiniteSets, TLC

\* ------------------------------------------------------------------ bounds
MaxRuns == 2      \* invocations of the command in one behaviour
MaxDay == 8       \* calendar days covered, counted from Epoch
MaxQuota == 2     \* largest fetch quota a run can start with

\* --------------------------------------------------------------- constants
fromyear == 2018
DefaultFrequency == 7
WeekDays == 7

None == "None"
FOB_METHOD == "FILE"

\* ------------------------------------------------------------ dates, names
\* Day 0 of the model's calendar, as <<year, month, day of month>>.
Epoch == <<2023, 12, 28>>

Days == 0..MaxDay

\* datetime values: a day offset from Epoch and a time of day, where tod = 0
\* is exactly midnight and tod = 1 is any later instant of that day.
DateTime(day, tod) == [day |-> day, tod |-> tod]

\* The times of day DT.datetime.today() can return
TimesOfDay == {0, 1}

\* DT.datetime(1911, 6, 16, 16, 20)
LongAgo == DateTime(-41103, 1)

DateLT(a, b) == a.day < b.day \/ (a.day = b.day /\ a.tod < b.tod)

\* a - DT.timedelta(days = n)
MinusDays(a, n) == DateTime(a.day - n, a.tod)

\* <<year, month, day of month>> of a day offset (December 2023 has 31 days)
YMD(n) ==
    IF Epoch[3] + n <= 31
    THEN <<Epoch[1], Epoch[2], Epoch[3] + n>>
    ELSE <<Epoch[1] + 1, 1, Epoch[3] + n - 31>>

Pad2(k) == IF k < 10 THEN "0" \o ToString(k) ELSE ToString(k)

\* The text YYYY-MM-DD of a day
FormatDate(n) == ToString(YMD(n)[1]) \o "-" \o Pad2(YMD(n)[2]) \o "-" \o Pad2(YMD(n)[3])

\* The texts of all days of the calendar, computed once
DateText == [n \in Days |-> FormatDate(n)]

\* now.strftime("%Y-%m-%d")
strftime(n) == DateText[n]

DateStrings == {DateText[n] : n \in Days}

\* The day a text YYYY-MM-DD denotes
DayOfText == [s \in DateStrings |-> CHOOSE n \in Days : DateText[n] = s]

\* DT.datetime.strptime(s, "%Y-%m-%d"): midnight of the day written in s
strptime(s) == DateTime(DayOfText[s], 0)

\* FOB_Storage.gen_DatasetList_name
gen_DatasetList_name(today) == "DatasetList-" \o today \o ".json"

\* FOB_Storage.DatasetList_search: the regular expression DSLregex matches
\* DatasetList-YYYY-MM-DD.json and captures the date; None when no match.
DatedNames == {gen_DatasetList_name(s) : s \in DateStrings}

DateOfName == [name \in DatedNames |->
                  CHOOSE s \in DateStrings : gen_DatasetList_name(s) = name]

DatasetList_search(name) == IF name \in DatedNames THEN DateOfName[name] ELSE None

\* FOB_Storage.Dataset_name: SS-NNNN.json
Dataset_name(state, id) == state \o "-" \o ToString(id) \o ".json"

\* A stored item that is listed with the DatasetList items but whose name the
\* regular expression does not match.
UndatedName == "DatasetList-backup.json"

\* ------------------------------------------------------- manifest contents
Entry(sid, sess, yend, hash) ==
    [state_id |-> sid, session_id |-> sess, access_key |-> "k" \o ToString(sess),
     year_start |-> yend - 1, year_end |-> yend,
     dataset_date |-> "2023-12-24", dataset_hash |-> hash,
     dataset_size |-> sess, session_name |-> "Session " \o ToString(sess)]

E9001 == Entry(5, 9001, 2019, "h1")
E9002 == Entry(5, 9002, 2020, "h2")
E8001 == Entry(5, 8001, 2017, "h3")
E7001 == Entry(3, 7001, 2019, "h4")
E6001 == Entry(99, 6001, 2020, "h5")

Package(hasStatus, status, hasList, list) ==
    [has_status |-> hasStatus, status |-> status,
     has_datasetlist |-> hasList, datasetlist |-> list]

\* The DatasetList texts that occur, and json.loads of each.
ManifestTexts == {"good", "old", "error", "nostatus", "nolist"}

json_loads(text) ==
    CASE text = "good" -> Package(TRUE, "OK", TRUE, <<E8001, E6001, E9001, E9002, E7001>>)
      [] text = "old" -> Package(TRUE, "OK", TRUE, <<E9001, E7001>>)
      [] text = "error" -> Package(TRUE, "ERROR", FALSE, <<>>)
      [] text = "nostatus" -> Package(FALSE, "", TRUE, <<E9001>>)
      [] text = "nolist" -> Package(TRUE, "OK", FALSE, <<>>)

\* What LegiscanAPI.getDatasetList can return: a text, or None on failure.
RemoteManifestResults == {"good", "error", "nostatus", "nolist", None}

\* What LegiscanAPI.getDataset returns for a session when it succeeds.
Payload(session_id) == "dataset " \o ToString(session_id)

\* ----------------------------------------------------------------- catalog
\* Location rows whose parent is 'usa'.
Locations ==
    << [shortname |-> "ca", legiscan_id |-> 5, desc |-> "California"],
       [shortname |-> "az", legiscan_id |-> 3, desc |-> "Arizona"] >>

\* str.upper on the short names of the catalog
Upper(s) == CASE s = "ca" -> "CA" [] s = "az" -> "AZ" [] OTHER -> s

StateOptions == {None, "CA"}
FrequencyOptions == {3, DefaultFrequency, 9}

\* ------------------------------------------------------------------- store
EmptyStore == [k \in {} |-> ""]

\* upload_text
upload_text(store, text, name) == (name :> text) @@ store

\* download_text
download_text(store, name) == store[name]

\* DatasetList_items: the stored names of DatasetList items
DatasetList_items(store) == {k \in DOMAIN store : k = UndatedName \/ k \in DatedNames}

SessionIds == {9001, 9002, 8001, 7001, 6001}
StateIds == {5, 3, 99}

\* Dataset_items(state): the stored names of the datasets of a state
StateCodes == {Upper(Locations[i].shortname) : i \in 1..Len(Locations)}

DatasetNames == [state \in StateCodes |->
                    {Dataset_name(state, id) : id \in SessionIds \cup StateIds}]

Dataset_items(store, state) == {k \in DOMAIN store : k \in DatasetNames[state]}

InitialStores ==
    { EmptyStore,
      (gen_DatasetList_name(strftime(0)) :> "old"),
      (gen_DatasetList_name(strftime(0)) :> "old") @@ (UndatedName :> "error")
          @@ (Dataset_name("CA", 9001) :> Payload(9001)) }

\* ------------------------------------------------------------------- state
VARIABLES
    fob,            \* File/Object storage: item name -> text
    ledger,         \* the Hash table: the rows saved so far, in order
    clock,          \* the time of the latest invocation
    runs,           \* invocations so far
    pc,             \* where the current invocation is
    err,            \* the error that ended it, or None
    use_api,        \* self.use_api
    opt_state,      \* options['state']
    frequency,      \* self.frequency
    now,            \* DT.datetime.today() of this invocation
    quota,          \* the fetches LegiscanAPI has left; api_ok is quota > 0
    latest_name,    \* recent_enough's latest_name
    latest_date,    \* recent_enough's latest_date
    list_name,      \* self.list_name
    list_data,      \* self.list_data
    datasetlist,    \* self.datasetlist: [isNone, items]
    states,         \* handle's list of [state, state_id]
    li,             \* index of the location handle's loop is at
    fob0,           \* history: the storage when the invocation started
    ledger0,        \* history: the number of Hash rows when it started
    quota0,         \* history: the quota when it started
    manifest_calls, \* history: getDatasetList calls of this invocation
    manifest_text,  \* history: the text recent_enough validated, or None
    api_result,     \* history: what getDatasetList returned, or "nocall"
    fetches,        \* history: getDataset calls of this invocation
    uploads,        \* history: upload_text calls of this invocation
    report          \* history: the report lines of this invocation

vars == <<fob, ledger, clock, runs, pc, err, use_api, opt_state, frequency, now,
          quota, latest_name, latest_date, list_name, list_data, datasetlist,
          states, li, fob0, ledger0, quota0, manifest_calls,
          manifest_text, api_result, fetches, uploads, report>>

persistent == <<fob, ledger, clock, runs>>
options == <<use_api, opt_state, frequency, now>>
resolved == <<latest_name, latest_date, list_name, list_data, datasetlist,
              manifest_calls, manifest_text, api_result>>
started == <<fob0, ledger0, quota0>>

NoList == [isNone |-> TRUE, items |-> <<>>]
SomeList(l) == [isNone |-> FALSE, items |-> l]

Ended == pc \in {"done", "failed", "crashed"}

\* Command.__init__ and the state before the first invocation
Init ==
    /\ fob \in InitialStores
    /\ ledger = <<>>
    /\ clock = DateTime(-1, 1)
    /\ runs = 0
    /\ pc = "idle"
    /\ err = None
    /\ use_api = FALSE
    /\ opt_state = None
    /\ frequency = DefaultFrequency
    /\ now = DateTime(0, 0)
    /\ quota = 0
    /\ latest_name = None
    /\ latest_date = LongAgo
    /\ list_name = None
    /\ list_data = None
    /\ datasetlist = NoList
    /\ states = <<>>
    /\ li = 1
    /\ fob0 = fob
    /\ ledger0 = 0
    /\ quota0 = 0
    /\ manifest_calls = 0
    /\ manifest_text = None
    /\ api_result = "nocall"
    /\ fetches = <<>>
    /\ uploads = <<>>
    /\ report = <<>>

\* if options['frequency']: self.frequency = options['frequency']
SetFrequency(opt) == IF opt # 0 THEN opt ELSE DefaultFrequency

\* A new invocation: the command object is constructed, LegiscanAPI starts
\* with the quota that is left to it, and handle reads the options.
StartRun ==
    /\ pc = "idle"
    /\ runs < MaxRuns
    /\ \E day \in Days, tod \in TimesOfDay, api \in BOOLEAN, st \in StateOptions,
          fr \in FrequencyOptions, q \in 0..MaxQuota :
        /\ DateLT(clock, DateTime(day, tod)) \/ (clock = DateTime(day, tod) /\ tod = 1)
        /\ now' = DateTime(day, tod)
        /\ clock' = DateTime(day, tod)
        /\ use_api' = api
        /\ opt_state' = st
        /\ frequency' = SetFrequency(fr)
        /\ quota' = q
        /\ quota0' = q
    /\ runs' = runs + 1
    /\ pc' = "resolve"
    /\ err' = None
    /\ latest_name' = None
    /\ latest_date' = LongAgo
    /\ list_name' = None
    /\ list_data' = None
    /\ datasetlist' = NoList
    /\ states' = <<>>
    /\ li' = 1
    /\ fob0' = fob
    /\ ledger0' = Len(ledger)
    /\ manifest_calls' = 0
    /\ manifest_text' = None
    /\ api_result' = "nocall"
    /\ fetches' = <<>>
    /\ uploads' = <<>>
    /\ report' = <<>>
    /\ UNCHANGED <<fob, ledger>>

\* ---------------------------------------------------------- recent_enough
Truthy(text) == text # None /\ text # ""

\* ScanLatest with the comparison of the dates turned round: the dated name
\* with the least date
ScanOldest(names, best) ==
    LET dated == {n \in names : DatasetList_search(n) # None} IN
    IF dated = {} THEN best
    ELSE LET name == CHOOSE n \in dated :
                        \A m \in dated :
                            ~DateLT(strptime(DatasetList_search(m)),
                                    strptime(DatasetList_search(n)))
         IN [date |-> strptime(DatasetList_search(name)), name |-> name]

\* The loop over dsl_list: the dated name with the greatest date, starting
\* from the date long ago and no name.  Names are taken in any order; two
\* names that the expression matches never carry the same date.
RECURSIVE ScanLatest(_, _)
ScanLatest(names, best) ==
    IF names = {} THEN best
    ELSE LET name == CHOOSE n \in names : TRUE
             mo == DatasetList_search(name)
             filedate == strptime(mo)
             next == IF mo # None /\ DateLT(best.date, filedate)
                     THEN [date |-> filedate, name |-> name]
                     ELSE best
         IN ScanLatest(names \ {name}, next)

\* CallsApi without the test of the date
CallsApiAnyDate(api, date, today) == api

\* CallsApi without the test of --api
CallsApiAnyway(api, date, today) == DateLT(date, MinusDays(today, WeekDays))

\* if self.use_api and latest_date < week_ago
CallsApi(api, date, today) == api /\ DateLT(date, MinusDays(today, WeekDays))

\* Downloads that never falls back to the stored item
DownloadsNever(name, data) == FALSE

\* if latest_name and (not self.list_data)
Downloads(name, data) == name # None /\ ~Truthy(data)

\* Validate without the final test of an absent text
ValidateNoAbsent(data, name) ==
    LET pkg == json_loads(data) IN
    IF ~Truthy(data)
    THEN [error |-> None, datasetlist |-> NoList]
    ELSE IF ~pkg.has_status
    THEN [error |-> None, datasetlist |-> NoList]
    ELSE IF pkg.status # "OK"
    THEN [error |-> "Status not OK: " \o name, datasetlist |-> NoList]
    ELSE IF ~pkg.has_datasetlist
    THEN [error |-> "datsetlist missing", datasetlist |-> NoList]
    ELSE [error |-> None, datasetlist |-> SomeList(pkg.datasetlist)]

\* Validate without the test of the status value
ValidateNoStatus(data, name) ==
    LET pkg == json_loads(data) IN
    IF ~Truthy(data)
    THEN [error |-> "API failure, or DatasetList not Found", datasetlist |-> NoList]
    ELSE IF ~pkg.has_status
    THEN [error |-> None, datasetlist |-> NoList]
    ELSE IF ~pkg.has_datasetlist
    THEN [error |-> "datsetlist missing", datasetlist |-> NoList]
    ELSE [error |-> None, datasetlist |-> SomeList(pkg.datasetlist)]

\* The validation of the text held: the CommandError raised, or None, and
\* the value self.datasetlist has afterwards.
Validate(data, name) ==
    LET pkg == json_loads(data) IN
    IF ~Truthy(data)
    THEN [error |-> "API failure, or DatasetList not Found", datasetlist |-> NoList]
    ELSE IF ~pkg.has_status
    THEN [error |-> None, datasetlist |-> NoList]
    ELSE IF pkg.status # "OK"
    THEN [error |-> "Status not OK: " \o name, datasetlist |-> NoList]
    ELSE IF ~pkg.has_datasetlist
    THEN [error |-> "datsetlist missing", datasetlist |-> NoList]
    ELSE [error |-> None, datasetlist |-> SomeList(pkg.datasetlist)]

\* self.list_data = self.recent_enough(), with the outcome of the one call
\* of getDatasetList it may make.
recent_enough ==
    /\ pc = "resolve"
    /\ LET latest == ScanLatest(DatasetList_items(fob), [date |-> LongAgo, name |-> None])
           call == CallsApi(use_api, latest.date, now)
       IN
       \E result \in (IF call THEN RemoteManifestResults ELSE {None}) :
        LET data1 == IF call THEN result ELSE None
            saved == call /\ Truthy(data1)
            name1 == IF saved THEN gen_DatasetList_name(strftime(now.day)) ELSE latest.name
            fob1 == IF saved THEN upload_text(fob, data1, name1) ELSE fob
            data2 == IF Downloads(latest.name, data1) THEN download_text(fob1, name1) ELSE data1
            v == Validate(data2, name1)
        IN
        /\ latest_name' = latest.name
        /\ latest_date' = latest.date
        /\ manifest_calls' = IF call THEN manifest_calls + 1 ELSE manifest_calls
        /\ api_result' = IF call THEN result ELSE "nocall"
        /\ list_name' = name1
        /\ fob' = fob1
        /\ uploads' = IF saved
                      THEN Append(uploads, [key |-> name1, text |-> data1,
                                            existed |-> name1 \in DOMAIN fob])
                      ELSE uploads
        /\ manifest_text' = data2
        /\ datasetlist' = v.datasetlist
        /\ err' = v.error
        /\ pc' = IF v.error # None THEN "failed" ELSE "loop"
        \* a CommandError leaves self.list_data as it is; the return value of
        \* recent_enough, None, is assigned to it otherwise
        /\ list_data' = IF v.error # None THEN data2 ELSE None
    /\ UNCHANGED <<ledger, clock, runs, options, quota, states, li,
                   started, fetches, report>>

\* ---------------------------------------------------------- fetch_dataset
\* if entry['state_id'] == state_id
SameState(entry, state_id) == entry.state_id = state_id

\* YearOk without the comparison
YearOkAny(entry) == TRUE

\* if entry['year_end'] >= self.fromyear
YearOk(entry) == entry.year_end >= fromyear

\* LegiscanAPI.api_ok: the quota is not used up
api_ok(q) == q > 0

\* ApiGate without the test of api_ok
ApiGateNoQuota(api, ok) == api

\* if self.use_api and self.leg.api_ok
ApiGate(api, ok) == api /\ ok

\* session_name = self.fob.Dataset_name(state, state_id)
FetchName(state, state_id, entry) == Dataset_name(state, state_id)

\* LegiscanAPI.getDataset: the quota left once it has returned the payload
QuotaAfter(q) == IF q > 0 THEN q - 1 ELSE 0

\* The body of fetch_dataset's loop for one entry.  acc carries the quota,
\* the storage, the calls made and the exception raised so far; fails says
\* that getDataset, if called for this entry, raises instead of returning.
FetchOne(acc, state, state_id, entry, fails) ==
    LET session_name == FetchName(state, state_id, entry)
        call == [state |-> state, state_id |-> state_id, entry |-> entry,
                 api_ok |-> api_ok(acc.quota), name |-> session_name,
                 failed |-> fails]
        up == [key |-> session_name, text |-> Payload(entry.session_id),
               existed |-> session_name \in DOMAIN acc.fob]
    IN
    IF ~(SameState(entry, state_id) /\ YearOk(entry)
         /\ ApiGate(use_api, api_ok(acc.quota)))
    THEN acc
    ELSE IF fails
    THEN [acc EXCEPT !.fetches = Append(@, call), !.error = "LegiscanError"]
    ELSE [acc EXCEPT !.fetches = Append(@, call),
                     !.quota = QuotaAfter(@),
                     !.fob = upload_text(@, Payload(entry.session_id), session_name),
                     !.uploads = Append(@, up)]

\* fetch_dataset(state, state_id): the loop over self.datasetlist from entry
\* k on, ended by the first exception.
RECURSIVE FetchLoop(_, _, _, _, _)
FetchLoop(acc, state, state_id, k, failAt) ==
    IF k > Len(datasetlist.items) \/ acc.error # None
    THEN acc
    ELSE FetchLoop(FetchOne(acc, state, state_id, datasetlist.items[k], k = failAt),
                   state, state_id, k + 1, failAt)

\* The entries at which a call of getDataset can fail, and 0 for no failure
FailPoints(state_id) ==
    {0} \cup {k \in 1..Len(datasetlist.items) :
                /\ use_api
                /\ SameState(datasetlist.items[k], state_id)
                /\ YearOk(datasetlist.items[k])}

\* ------------------------------------------------- handle: the state loop
\* SkipsState without the test of --state
SkipsNoState(opt, state) == FALSE

\* if options['state']: if state != options['state']: continue
SkipsState(opt, state) == opt # None /\ state # opt

\* AfterLocation with datasets_found called inside the loop
AfterLocationReport(i) == "report"

\* Where handle is after the location at index i: at the next location, or
\* at datasets_found(states) once the loop is over.
AfterLocation(i) == IF i < Len(Locations) THEN "loop" ELSE "report"

\* One round of handle's loop over locations, with the call of fetch_dataset
\* it makes.  failAt is the entry at which getDataset, if it is called there,
\* raises (0: nowhere).  Iterating self.datasetlist when it is None raises
\* TypeError.
ProcessLocation ==
    /\ pc = "loop"
    /\ LET loc == Locations[li]
           state == Upper(loc.shortname)
           state_id == loc.legiscan_id
           acc0 == [quota |-> quota, fob |-> fob, fetches |-> fetches,
                    uploads |-> uploads, error |-> None]
       IN
       /\ states' = Append(states, <<state, state_id>>)
       /\ IF SkipsState(opt_state, state)
          THEN /\ pc' = AfterLocation(li)
               /\ li' = li + 1
               /\ UNCHANGED <<err, quota, fob, fetches, uploads>>
          ELSE IF datasetlist.isNone
          THEN /\ pc' = "crashed"
               /\ err' = "TypeError"
               /\ UNCHANGED <<li, quota, fob, fetches, uploads>>
          ELSE \E failAt \in FailPoints(state_id) :
               LET acc == FetchLoop(acc0, state, state_id, 1, failAt) IN
               /\ quota' = acc.quota
               /\ fob' = acc.fob
               /\ fetches' = acc.fetches
               /\ uploads' = acc.uploads
               /\ err' = acc.error
               /\ pc' = IF acc.error # None THEN "crashed" ELSE AfterLocation(li)
               /\ li' = IF acc.error # None THEN li ELSE li + 1
    /\ UNCHANGED <<ledger, clock, runs, options, resolved, started, report>>

\* --------------------------------------------------------- datasets_found
\* Expected without the test of the year
ExpectedAnyYear(entry, state_id) == entry.state_id = state_id

\* entry['state_id'] == state_id and entry['year_end'] >= self.fromyear
Expected(entry, state_id) == entry.state_id = state_id /\ entry.year_end >= fromyear

\* session_name = self.fob.Dataset_name(state, session_id)
ReportName(state, entry) == Dataset_name(state, entry.session_id)

\* The Hash row saved for an entry
HashRow(session_name, entry) ==
    [item_name |-> session_name, fob_method |-> FOB_METHOD,
     generated_date |-> entry.dataset_date, hashcode |-> entry.dataset_hash,
     size |-> entry.dataset_size, desc |-> entry.session_name]

\* The report line printed for an entry: found, or 'Item not found'
ReportLine(state, state_id, entry, found_list) ==
    [state |-> state, state_id |-> state_id, entry |-> entry,
     name |-> ReportName(state, entry),
     found |-> ReportName(state, entry) \in found_list]

\* The inner loop of datasets_found for one state, from entry k on: acc
\* carries the report lines and the Hash rows so far.
RECURSIVE ReportLoop(_, _, _, _, _)
ReportLoop(acc, state, state_id, found_list, k) ==
    IF k > Len(datasetlist.items) THEN acc
    ELSE LET entry == datasetlist.items[k]
             next == IF Expected(entry, state_id)
                     THEN [report |-> Append(acc.report,
                                             ReportLine(state, state_id, entry, found_list)),
                           ledger |-> Append(acc.ledger,
                                             HashRow(ReportName(state, entry), entry))]
                     ELSE acc
         IN ReportLoop(next, state, state_id, found_list, k + 1)

\* The outer loop of datasets_found, from the state at index i on
RECURSIVE StatesLoop(_, _)
StatesLoop(acc, i) ==
    IF i > Len(states) THEN acc
    ELSE StatesLoop(ReportLoop(acc, states[i][1], states[i][2],
                               Dataset_items(fob, states[i][1]), 1),
                    i + 1)

\* self.datasets_found(states) and the return of handle.  Iterating
\* self.datasetlist when it is None raises TypeError.
datasets_found ==
    /\ pc = "report"
    /\ IF datasetlist.isNone /\ Len(states) > 0
       THEN /\ pc' = "crashed"
            /\ err' = "TypeError"
            /\ UNCHANGED <<ledger, report>>
       ELSE LET acc == StatesLoop([report |-> report, ledger |-> ledger], 1) IN
            /\ report' = acc.report
            /\ ledger' = acc.ledger
            /\ pc' = "done"
            /\ UNCHANGED err
    /\ UNCHANGED <<fob, clock, runs, options, quota, resolved, states, li,
                   started, fetches, uploads>>

\* The process exits: the command object and the API client are discarded;
\* the storage and the Hash table stay.
EndRun ==
    /\ Ended
    /\ pc' = "idle"
    /\ err' = None
    /\ use_api' = FALSE
    /\ opt_state' = None
    /\ frequency' = DefaultFrequency
    /\ now' = DateTime(0, 0)
    /\ quota' = 0
    /\ latest_name' = None
    /\ latest_date' = LongAgo
    /\ list_name' = None
    /\ list_data' = None
    /\ datasetlist' = NoList
    /\ states' = <<>>
    /\ li' = 1
    /\ fob0' = fob
    /\ ledger0' = Len(ledger)
    /\ quota0' = 0
    /\ manifest_calls' = 0
    /\ manifest_text' = None
    /\ api_result' = "nocall"
    /\ fetches' = <<>>
    /\ uploads' = <<>>
    /\ report' = <<>>
    /\ UNCHANGED persistent

Next == EndRun \/ StartRun \/ recent_enough \/ ProcessLocation \/ datasets_found

Spec == Init /\ [][Next]_vars

\* ------------------------------------------------------------------ claims
\* The invocation is past recent_enough
Resolved == pc \notin {"idle", "resolve"}

\* json.loads of the text recent_enough validated
UsedPackage == json_loads(manifest_text)

\* The age in days of the newest dated DatasetList item (from the date long
\* ago when there is none)
CacheAge == now.day - latest_date.day

\* The getDataset calls of this invocation that returned a payload
Fetched == {i \in 1..Len(fetches) : ~fetches[i].failed}

\* The uploads of this invocation that stored a DatasetList
ManifestUploads == {i \in 1..Len(uploads) : uploads[i].key \in DatedNames}

NoDatasetWork ==
    /\ fetches = <<>>
    /\ \A i \in 1..Len(uploads) : uploads[i].key \in DatedNames
    /\ report = <<>>
    /\ Len(ledger) = ledger0

\* C1: quota respect.  In every invocation the number of getDataset calls is
\* at most the quota it started with, every call is made while the API client
\* reports the quota as available, and the quota only goes down, by one for
\* each payload returned.
C1_QuotaRespect ==
    /\ Len(fetches) <= quota0
    /\ \A i \in 1..Len(fetches) : fetches[i].api_ok
    /\ quota + Cardinality(Fetched) = quota0

\* A finished invocation that used up a quota of 2 and left an expected
\* dataset unfetched
C1_Witness ==
    /\ pc = "done"
    /\ use_api
    /\ quota0 = 2
    /\ Len(fetches) = 2
    /\ quota = 0
    /\ Len(report) = 3

\* C2: freshness.  When a dated DatasetList item exists whose age in days is
\* below the --frequency of the invocation, getDatasetList is not called.
C2_Freshness ==
    (Resolved /\ latest_name # None /\ CacheAge < frequency) => manifest_calls = 0

\* C3: staleness.  When --api is given and the age in days of the newest
\* DatasetList item (the date long ago when there is none) is at least the
\* --frequency of the invocation, getDatasetList is called exactly once.
C3_Staleness ==
    (Resolved /\ use_api /\ CacheAge >= frequency) => manifest_calls = 1

\* C4: dataset key.  Every payload fetched for an entry of a state is
\* uploaded under SS-NNNN.json with the state's code and the entry's
\* session_id, so entry 9001 of the state with id 5 goes to CA-9001.json.
C4_DatasetKey ==
    \A i \in Fetched :
        /\ fetches[i].name = Dataset_name(fetches[i].state, fetches[i].entry.session_id)
        /\ (fetches[i].entry = E9001 => fetches[i].name = "CA-9001.json")
        /\ \A j \in Fetched :
              fetches[i].state = fetches[j].state
              /\ fetches[i].entry.session_id # fetches[j].entry.session_id
              => fetches[i].name # fetches[j].name

\* C5: year and state filter.  Every getDataset call, every report line and
\* every Hash row of an invocation is for a state of the catalog and an entry
\* with that state's id and year_end >= fromyear; the Hash rows saved are
\* those of the report lines, and the datasets uploaded those of the payloads
\* returned.
C5_Filter ==
    /\ \A i \in 1..Len(fetches) :
          /\ \E l \in 1..Len(Locations) :
                /\ fetches[i].state = Upper(Locations[l].shortname)
                /\ fetches[i].state_id = Locations[l].legiscan_id
          /\ fetches[i].entry.state_id = fetches[i].state_id
          /\ fetches[i].entry.year_end >= fromyear
    /\ \A i \in 1..Len(report) :
          /\ \E l \in 1..Len(Locations) :
                /\ report[i].state = Upper(Locations[l].shortname)
                /\ report[i].state_id = Locations[l].legiscan_id
          /\ report[i].entry.state_id = report[i].state_id
          /\ report[i].entry.year_end >= fromyear
    /\ Len(ledger) = ledger0 + Len(report)
    /\ \A i \in 1..Len(report) :
          ledger[ledger0 + i] = HashRow(report[i].name, report[i].entry)
    /\ Len(uploads) = Cardinality(ManifestUploads) + Cardinality(Fetched)

\* A finished invocation over the list that has an entry that is too old and
\* an entry of no state, with a fetch made and lines reported
C5_Witness ==
    /\ pc = "done"
    /\ manifest_text = "good"
    /\ Len(fetches) = 2
    /\ Len(report) = 3

\* C6: no DatasetList.  When recent_enough holds no text after its steps (no
\* dated item is stored and either --api is not given or getDatasetList
\* returned nothing), the invocation ends with the CommandError 'API failure,
\* or DatasetList not Found', with no getDataset call, no upload, no report
\* line and no Hash row.
C6_ManifestUnavailable ==
    (Resolved /\ (~Truthy(manifest_text)
                  \/ (latest_name = None /\ (~use_api \/ api_result = None))))
    => /\ pc = "failed"
       /\ err = "API failure, or DatasetList not Found"
       /\ ~Truthy(manifest_text)
       /\ latest_name = None
       /\ ~use_api \/ (api_result = None /\ manifest_calls = 1)
       /\ NoDatasetWork
       /\ uploads = <<>>
       /\ fob = fob0

\* An invocation with --api that found nothing stored and got nothing from
\* getDatasetList
C6_Witness ==
    /\ pc = "failed"
    /\ use_api
    /\ manifest_calls = 1
    /\ api_result = None
    /\ latest_name = None

\* C7: status not OK.  When the text recent_enough validated, stored or just
\* fetched, has a status other than "OK", the invocation ends with the
\* CommandError 'Status not OK: ' followed by the name of the item holding
\* that text, with no getDataset call, no report line and no Hash row.
C7_ManifestStatusError ==
    (Resolved /\ Truthy(manifest_text) /\ UsedPackage.has_status
     /\ UsedPackage.status # "OK")
    => /\ pc = "failed"
       /\ err = "Status not OK: " \o list_name
       /\ list_name \in DOMAIN fob
       /\ fob[list_name] = manifest_text
       /\ NoDatasetWork

\* An invocation that made no call and found the status ERROR in the stored
\* item it downloaded
C7_Witness ==
    /\ pc = "failed"
    /\ api_result = "nocall"
    /\ manifest_text = "error"
    /\ list_name = latest_name

\* C8: wholesale rejection.  A text without the status field, or with status
\* "OK" and without datasetlist, makes recent_enough raise a CommandError;
\* it never returns with self.datasetlist unset, so fetch_dataset and
\* datasets_found never run on such a text.
C8_WholesaleRejection ==
    /\ (Resolved /\ Truthy(manifest_text)
        /\ (~UsedPackage.has_status
            \/ (UsedPackage.status = "OK" /\ ~UsedPackage.has_datasetlist)))
       => pc = "failed"
    /\ pc \in {"loop", "report", "done"} => ~datasetlist.isNone

\* C9: without --api.  An invocation without --api calls neither
\* getDatasetList nor getDataset and leaves the storage as it was; passing
\* over the entries raises nothing (no exception while self.datasetlist is
\* set).
C9_RemoteDisabled ==
    (pc # "idle" /\ ~use_api)
    => /\ manifest_calls = 0
       /\ api_result = "nocall"
       /\ fetches = <<>>
       /\ uploads = <<>>
       /\ fob = fob0
       /\ pc = "crashed" => datasetlist.isNone

\* A finished invocation without --api, with quota left, that reported an
\* expected dataset as not found
C9_Witness ==
    /\ pc = "done"
    /\ ~use_api
    /\ quota0 > 0
    /\ \E i \in 1..Len(report) : ~report[i].found

\* C10: fallback.  When --api is given, getDatasetList was called and
\* returned nothing, and a dated DatasetList item is stored, recent_enough
\* uploads no DatasetList, validates the text of the newest stored item and
\* does not raise 'API failure, or DatasetList not Found'.
C10_RemoteFailureFallback ==
    (Resolved /\ use_api /\ api_result = None /\ latest_name # None)
    => /\ manifest_calls = 1
       /\ ManifestUploads = {}
       /\ DatasetList_items(fob) = DatasetList_items(fob0)
       /\ list_name = latest_name
       /\ manifest_text = fob0[latest_name]
       /\ err # "API failure, or DatasetList not Found"

\* A finished invocation that went on with the stored item after
\* getDatasetList returned nothing
C10_Witness ==
    /\ pc = "done"
    /\ use_api
    /\ api_result = None
    /\ latest_name # None
    /\ Len(report) > 0

\* C11: fetch failure isolation.  A getDataset call that fails does not end
\* the invocation: the loops go on, datasets_found still runs, and nothing is
\* uploaded for the entry whose fetch failed.
C11_FetchFailureIsolation ==
    \A i \in 1..Len(fetches) :
        fetches[i].failed
        => /\ pc \in {"loop", "report", "done"}
           /\ err = None
           /\ \A j \in 1..Len(uploads) :
                 uploads[j].text # Payload(fetches[i].entry.session_id)

\* C12: datasets are written once.  No getDataset call is made for an entry
\* whose dataset SS-NNNN.json was stored when the invocation started, and no
\* upload of a dataset replaces an item that was stored when it started.
C12_DatasetWriteOnce ==
    /\ \A i \in 1..Len(fetches) :
          Dataset_name(fetches[i].state, fetches[i].entry.session_id) \notin DOMAIN fob0
    /\ \A j \in 1..Len(uploads) :
          uploads[j].key \notin DatedNames => uploads[j].key \notin DOMAIN fob0

\* C13: DatasetList items are written once.  No step of any invocation
\* removes a stored DatasetList item or changes its text; an item that
\* appears is DatasetList-<today>.json for the day of the invocation, holds
\* the text getDatasetList returned, and was not stored before.
C13_ManifestWriteOnce ==
    [][ /\ \A k \in DatasetList_items(fob) : k \in DOMAIN fob' /\ fob'[k] = fob[k]
        /\ \A k \in DatasetList_items(fob') \ DatasetList_items(fob) :
              /\ pc = "resolve"
              /\ k = gen_DatasetList_name(strftime(now.day))
              /\ fob'[k] = api_result'
              /\ \E i \in ManifestUploads' : uploads'[i].key = k /\ ~uploads'[i].existed
      ]_vars

\* An invocation that stored a new DatasetList beside the older one, which
\* is still there with its text
C13_Witness ==
    /\ Resolved
    /\ ManifestUploads # {}
    /\ latest_name # None
    /\ list_name # latest_name
    /\ latest_name \in DOMAIN fob
    /\ fob[latest_name] = fob0[latest_name]
    /\ fob[list_name] # fob[latest_name]

\* The pairs of a location of the catalog and an entry of the list in use
\* with that location's id and year_end >= fromyear
ExpectedPairs ==
    {<<l, k>> \in (1..Len(Locations)) \X (1..Len(datasetlist.items)) :
        /\ datasetlist.items[k].state_id = Locations[l].legiscan_id
        /\ datasetlist.items[k].year_end >= fromyear}

\* The Hash row of a pair
PairRow(l, k) ==
    HashRow(Dataset_name(Upper(Locations[l].shortname), datasetlist.items[k].session_id),
            datasetlist.items[k])

\* The number of rows of the Hash table equal to a row
RowCount(rows, row) == Cardinality({j \in 1..Len(rows) : rows[j] = row})

\* C14: the ledger is appended to.  No step removes or changes a Hash row;
\* rows are added only by the step that completes an invocation, and that
\* step adds exactly one row for every pair of a location of the whole
\* catalog and an entry with its id and year_end >= fromyear, whether or not
\* the dataset is stored and whatever --state is.
C14_LedgerAppend ==
    [][ /\ Len(ledger') >= Len(ledger)
        /\ SubSeq(ledger', 1, Len(ledger)) = ledger
        /\ ledger' # ledger => pc = "report" /\ pc' = "done"
        /\ (pc = "report" /\ pc' = "done")
           => /\ Len(ledger') = Len(ledger) + Cardinality(ExpectedPairs)
              /\ \A p \in ExpectedPairs :
                    RowCount(ledger', PairRow(p[1], p[2]))
                        = RowCount(ledger, PairRow(p[1], p[2])) + 1
      ]_vars

\* The second of two completed invocations over the same list, run for one
\* state only: the row of a dataset of the other state, which is not stored,
\* is there twice
C14_Witness ==
    /\ pc = "done"
    /\ runs = 2
    /\ opt_state = "CA"
    /\ Dataset_name("AZ", 7001) \notin DOMAIN fob
    /\ RowCount(ledger, HashRow(Dataset_name("AZ", 7001), E7001)) = 2
    /\ RowCount(ledger, HashRow(Dataset_name("CA", 9001), E9001)) = 2

\* The dated DatasetList items stored when the invocation started
DatedAtStart == {k \in DOMAIN fob0 : k \in DatedNames}

\* getDatasetList gave this invocation a text
GotRemote == api_result \notin {"nocall", None}

\* C15: the latest stored DatasetList.  When getDatasetList gave the
\* invocation no text, the text recent_enough validates is that of the
\* stored item whose name carries the greatest date among the names the
\* expression matches; a name it does not match is never chosen.  With
\* DatasetList-2024-01-01.json the newest item, --frequency 7 and a run on
\* 2024-01-03, no call is made and that item is used.
C15_LatestSelection ==
    /\ latest_name # UndatedName
    /\ (Resolved /\ ~GotRemote /\ DatedAtStart # {})
       => /\ latest_name \in DatedAtStart
          /\ \A k \in DatedAtStart : DayOfText[DateOfName[k]] <= DayOfText[DateOfName[latest_name]]
          /\ list_name = latest_name
          /\ manifest_text = fob0[latest_name]
    /\ (Resolved /\ ~GotRemote /\ DatedAtStart = {}) => manifest_text = None
    /\ (Resolved /\ frequency = 7 /\ now.day = 6
        /\ "DatasetList-2024-01-01.json" \in DatedAtStart
        /\ \A k \in DatedAtStart : DayOfText[DateOfName[k]] <= 4)
       => /\ manifest_calls = 0
          /\ manifest_text = fob0["DatasetList-2024-01-01.json"]

\* An invocation that made no call and used the newer of two dated items,
\* with an item of another name in the storage as well
C15_Witness ==
    /\ pc = "done"
    /\ api_result = "nocall"
    /\ UndatedName \in DOMAIN fob0
    /\ Cardinality(DatedAtStart) = 2
    /\ manifest_text = "good"
    /\ fob0[gen_DatasetList_name(strftime(0))] = "old"

\* The run of 2024-01-03 with --api and --frequency 7 over a storage whose
\* newest item is DatasetList-2024-01-01.json
C15_ScenarioB ==
    /\ pc = "done"
    /\ use_api
    /\ frequency = 7
    /\ now.day = 6
    /\ latest_name = "DatasetList-2024-01-01.json"
    /\ manifest_calls = 0

\* The place of a state in the catalog
LocIndex(state) ==
    CHOOSE l \in 1..Len(Locations) : Upper(Locations[l].shortname) = state

\* A step inside an invocation (not its start, not its end)
Inside == pc' \notin {"idle", "resolve"}

\* C16: order of the driver.  recent_enough runs once in an invocation, as
\* its first step, and what it leaves is not changed afterwards; getDataset
\* is called only after it, in the loop over locations; the locations are
\* taken one at a time in the order of the catalog; Hash rows are saved only
\* once the loop is over for every location, after every fetch and upload.
C16_DriverOrdering ==
    [][ /\ pc' = "resolve" => pc = "idle"
        /\ pc = "resolve" => pc' # "resolve"
        /\ (Inside /\ pc # "resolve")
           => /\ datasetlist' = datasetlist
              /\ list_name' = list_name
              /\ manifest_text' = manifest_text
              /\ manifest_calls' = manifest_calls
        /\ (Inside /\ (fetches' # fetches \/ uploads' # uploads) /\ pc # "resolve")
           => /\ pc = "loop"
              /\ Len(ledger) = ledger0
              /\ ledger' = ledger
        /\ (Inside /\ pc = "resolve") => fetches' = <<>>
        /\ Inside
           => /\ Len(states') <= Len(Locations)
              /\ \A i \in 1..Len(states') :
                    states'[i] = <<Upper(Locations[i].shortname), Locations[i].legiscan_id>>
              /\ Len(states') \in {Len(states), Len(states) + 1}
              /\ \A i \in 1..Len(fetches') : LocIndex(fetches'[i].state) <= Len(states')
              /\ \A i, j \in 1..Len(fetches') :
                    i < j => LocIndex(fetches'[i].state) <= LocIndex(fetches'[j].state)
        /\ ledger' # ledger
           => /\ pc = "report"
              /\ Len(states) = Len(Locations)
              /\ fetches' = fetches
              /\ uploads' = uploads
              /\ fob' = fob
      ]_vars

\* A completed invocation that fetched for the first state, then for the
\* second, and then saved its Hash rows
C16_Witness ==
    /\ pc = "done"
    /\ Len(fetches) = 2
    /\ fetches[1].state = "CA"
    /\ fetches[2].state = "AZ"
    /\ Len(ledger) = ledger0 + 2

\* getDataset returned a payload for the pair of a location and an entry
FetchedPair(l, k) ==
    \E i \in Fetched :
        /\ fetches[i].state = Upper(Locations[l].shortname)
        /\ fetches[i].entry = datasetlist.items[k]

\* a report line was printed for the pair
ReportedPair(l, k) ==
    \E i \in 1..Len(report) :
        /\ report[i].state = Upper(Locations[l].shortname)
        /\ report[i].entry = datasetlist.items[k]

\* C17: --state.  With --state given, getDataset is called and datasets are
\* uploaded only for the state whose code equals it, while datasets_found
\* still reports every state of the catalog; fetch_dataset runs for that
\* state, and without --state for every state (seen when --api is given and
\* the quota is never used up: every expected dataset is then fetched).
C17_SingleStateFilter ==
    /\ opt_state # None
       => /\ \A i \in 1..Len(fetches) : fetches[i].state = opt_state
          /\ \A j \in 1..Len(uploads) :
                uploads[j].key \notin DatedNames
                => opt_state \in StateCodes /\ uploads[j].key \in DatasetNames[opt_state]
    /\ pc = "done" => \A p \in ExpectedPairs : ReportedPair(p[1], p[2])
    /\ (pc \in {"report", "done"} /\ use_api /\ quota > 0)
       => \A p \in ExpectedPairs :
             (opt_state = None \/ opt_state = Upper(Locations[p[1]].shortname))
             => FetchedPair(p[1], p[2])

\* A completed invocation for CA alone, with quota left, that fetched for CA
\* and reported AZ as well
C17_Witness ==
    /\ pc = "done"
    /\ opt_state = "CA"
    /\ use_api
    /\ quota > 0
    /\ fetches # <<>>
    /\ \E i \in 1..Len(report) : report[i].state = "AZ"

\* C18: an aborted invocation leaves no trace.  An invocation ended by a
\* CommandError of recent_enough leaves the storage as it was when it
\* started; a text just fetched that fails the validation is not stored as a
\* DatasetList item.
C18_AbortLeavesStore ==
    pc = "failed"
    => /\ fob = fob0
       /\ uploads = <<>>
       /\ DatasetList_items(fob) = DatasetList_items(fob0)

\* C19: fetch and report agree on the names.  After a completed invocation
\* an expected dataset is reported 'Item not found' only if getDataset
\* returned no payload for it in this invocation and it was not stored
\* before; when --api is given without --state and every expected dataset
\* was fetched, every report line says found.
C19_FetchReportAgree ==
    pc = "done"
    => /\ \A i \in 1..Len(report) :
             ~report[i].found
             => /\ ~\E j \in Fetched :
                       /\ fetches[j].state = report[i].state
                       /\ fetches[j].entry = report[i].entry
                /\ report[i].name \notin DOMAIN fob0
       /\ (use_api /\ opt_state = None
           /\ \A p \in ExpectedPairs : FetchedPair(p[1], p[2]))
          => \A i \in 1..Len(report) : report[i].found

====
